---- MODULE Spec2Model ----
(***************************************************************************)
(* Model of file_format_conversion/npy2png_inplace.py: the converter       *)
(* process_and_overwrite_npy and the directory walker process_directory.   *)
(* Paths and file names are sequences of one-character strings, so that    *)
(* str.replace, str.endswith and os.path.join are computed character by    *)
(* character.  Arrays are records of a shape and the elements in C order.  *)
(***************************************************************************)
EXTENDS Integers, Sequences, FiniteSets, TLC

VARIABLES
    fs,        \* the files: path -> content (NoFile when absent)
    wpc,       \* the walker: "idle", "walk" (inside os.walk), "done"
    todo,      \* os.walk: the directories still to be listed, in order
    top,       \* os.walk: the directory whose files are being looped over
    files,     \* os.walk: the names listed in top that the loop has not seen yet
    pc,        \* the converter: "idle", "load", "check", "save", "remove", "ret"
    cur,       \* npy_file_path of the call in progress
    data,      \* the local `data`
    image,     \* the local `image`
    pngpath,   \* the local `png_file_path`
    outcome,   \* how the call in progress ended
    wrote,     \* the call in progress has completed image.save
    fsc,       \* history: fs when the call in progress started
    fs0,       \* history: fs when the run in progress started
    log,       \* history: the calls of the run in progress
    hist,      \* history: the finished runs
    faultlog,  \* history: the failures the environment has injected
    src,       \* conversion check: the array handed to the conversion
    img        \* conversion check: the image it produced

vars == <<fs, wpc, todo, top, files, pc, cur, data, image, pngpath,
          outcome, wrote, fsc, fs0, log, hist, faultlog, src, img>>

walkvars == <<wpc, todo, top, files>>
callvars == <<pc, cur, data, image, pngpath, outcome, wrote, fsc>>
convvars == <<src, img>>

\* ------------------------------------------------------------------------
\* Bounds

MaxFiles  == 2   \* files present when the program starts
MaxFaults == 1   \* failures injected by the environment (I/O errors)
MaxRuns   == 2   \* runs of process_directory
MaxPixels == 2   \* pixels (rows x columns) of the arrays of the conversion check

\* ------------------------------------------------------------------------
\* Strings

DotNpy == <<".", "n", "p", "y">>
DotPng == <<".", "p", "n", "g">>
Sep    == <<"/">>

\* s[i..] starts with t
StartsAt(s, i, t) ==
    /\ i + Len(t) - 1 <= Len(s)
    /\ \A k \in 1..Len(t) : s[i + k - 1] = t[k]

\* str.endswith
EndsWith(s, t) ==
    /\ Len(s) >= Len(t)
    /\ SubSeq(s, Len(s) - Len(t) + 1, Len(s)) = t

\* str.replace(old, new): every non-overlapping occurrence, left to right
RECURSIVE ReplaceFrom(_, _, _, _)
ReplaceFrom(s, i, old, new) ==
    IF i > Len(s) THEN <<>>
    ELSE IF StartsAt(s, i, old)
         THEN new \o ReplaceFrom(s, i + Len(old), old, new)
         ELSE <<s[i]>> \o ReplaceFrom(s, i + 1, old, new)

Replace(s, old, new) == ReplaceFrom(s, 1, old, new)

\* os.path.join(a, b) for a relative b
Join(a, b) == IF EndsWith(a, Sep) THEN a \o b ELSE a \o Sep \o b

LastSep(p) ==
    LET I == {i \in 1..Len(p) : p[i] = "/"}
    IN  IF I = {} THEN 0 ELSE CHOOSE i \in I : \A j \in I : j <= i

Dirname(p)  == SubSeq(p, 1, LastSep(p) - 1)
Basename(p) == SubSeq(p, LastSep(p) + 1, Len(p))

\* ------------------------------------------------------------------------
\* Arrays, images and file contents

NoArray == [shape |-> <<>>, data |-> <<>>]
NoImage == [size |-> <<>>, px |-> <<>>]

NoFile        == [kind |-> "none", shape |-> <<>>, data |-> <<>>]
NpyFile(arr)  == [kind |-> "npy", shape |-> arr.shape, data |-> arr.data]
PngFile(im)   == [kind |-> "png", shape |-> im.size, data |-> im.px]
\* neither a serialized array nor an image: corrupt, truncated, half written
BadFile       == [kind |-> "bad", shape |-> <<>>, data |-> <<>>]

Exists(f, p) == f[p].kind # "none"

\* np.load succeeds on the content: it is a serialized array
Loadable(c) == c.kind = "npy"

\* np.load: the array a file holds
LoadArray(c) == [shape |-> c.shape, data |-> c.data]

\* data.ndim == 3 and data.shape[2] == 3
\* (ShapeOKNdimOnly: the test without its second conjunct)
ShapeOKNdimOnly(arr) == Len(arr.shape) = 3
ShapeOK(arr) == Len(arr.shape) = 3 /\ arr.shape[3] = 3

\* the index list of data[..., [2, 1, 0]]
\* (PermIdentity: the index list that leaves the channels in place)
PermIdentity == <<0, 1, 2>>
Perm == <<2, 1, 0>>

\* data[..., Perm]: along the last axis, element k of the result is element
\* Perm[k] of the operand
Reorder(arr) ==
    LET nd  == Len(arr.shape)
        n   == arr.shape[nd]
        m   == Len(Perm)
        cnt == (Len(arr.data) \div n) * m
    IN  [shape |-> [i \in 1..nd |-> IF i = nd THEN m ELSE arr.shape[i]],
         data  |-> [j \in 1..cnt |->
                      arr.data[((j - 1) \div m) * n + Perm[((j - 1) % m) + 1] + 1]]]

\* astype(np.uint8) of an integer: the low 8 bits
Narrow(v) == v % 256

AsUint8(arr) ==
    [shape |-> arr.shape, data |-> [j \in 1..Len(arr.data) |-> Narrow(arr.data[j])]]

\* Image.fromarray of an H x W x 3 uint8 array: an RGB image of size (W, H)
FromArray(arr) == [size |-> <<arr.shape[2], arr.shape[1]>>, px |-> arr.data]

\* Image.getpixel((x, y))
GetPixel(im, x, y) ==
    LET b == (y * im.size[1] + x) * 3
    IN  <<im.px[b + 1], im.px[b + 2], im.px[b + 3]>>

\* lines 43-46: the image the converter builds from a loaded array
ToImage(arr) == FromArray(AsUint8(Reorder(arr)))

\* npy_file_path.replace('.npy', '.png')
PngPath(p) == Replace(p, DotNpy, DotPng)

\* ------------------------------------------------------------------------
\* The directory tree and the files the model places in it

Root == <<"r">>

DirNpy == Join(Root, <<"d">> \o DotNpy)     \* r/d.npy
DirPng == Join(Root, <<"d">> \o DotPng)     \* r/d.png

NameA  == <<"a">> \o DotNpy                 \* a.npy

\* r/a.npy, r/d.npy/a.npy, r/d.png/a.npy
SrcPaths == { Join(Root, NameA), Join(DirNpy, NameA), Join(DirPng, NameA) }

Paths == SrcPaths \cup { PngPath(p) : p \in SrcPaths }

\* the directories: the program creates and removes none
Dirs == {Root, DirNpy, DirPng}

\* the arrays the model stores in the source files
ArrA == [shape |-> <<2, 2, 3>>, data |-> <<1, 2, 3, 4, 5, 6, 7, 8, 9, 10, 11, 12>>]
ArrB == [shape |-> <<1, 1, 3>>, data |-> <<258, -1, 7>>]
Gray == [shape |-> <<2, 2>>, data |-> <<1, 2, 3, 4>>]
Rgba == [shape |-> <<1, 1, 4>>, data |-> <<10, 20, 30, 40>>]

OldImage == [size |-> <<1, 1>>, px |-> <<9, 9, 9>>]

SrcContents == { NpyFile(ArrA), NpyFile(ArrB), NpyFile(Gray), NpyFile(Rgba), BadFile }

\* the filesystems the program may be started on: at most MaxFiles files;
\* an array file holds any of SrcContents, an image file holds OldImage
InitFs ==
    UNION { { [p \in Paths |-> IF p \in S THEN c[p] ELSE NoFile] :
                c \in { g \in [S -> SrcContents \cup {PngFile(OldImage)}] :
                          \A p \in S : (p \in SrcPaths) <=> (g[p] \in SrcContents) } } :
            S \in { T \in SUBSET Paths : Cardinality(T) <= MaxFiles } }

\* the arrays of the conversion check
ElemVals == {-1, 7, 256, 258}

ConvShapes == { hw \in (1..MaxPixels) \X (1..MaxPixels) : hw[1] * hw[2] <= MaxPixels }

\* the h x w x 3 array with the elements d, in C order
ConvArray(hw, d) == [shape |-> <<hw[1], hw[2], 3>>, data |-> d]

\* ------------------------------------------------------------------------
\* os.walk

\* the orders in which a directory listing may come back
Orders(S) ==
    { q \in [1..Cardinality(S) -> S] : \A i, j \in 1..Cardinality(S) : q[i] = q[j] => i = j }

\* the names of the non-directory entries of a directory
FilesOf(f, d) == { Basename(p) : p \in { q \in Paths : Exists(f, q) /\ Dirname(q) = d } }

\* the sub-directories of a directory, which os.walk descends into
\* (NoSubdirs: a listing of the top directory only)
NoSubdirs(D, d) == {}
SubdirsOf(D, d) == { e \in D : Dirname(e) = d }

\* file.endswith('.npy')
\* (IsCandidateAny: the loop without the filter)
IsCandidateAny(name) == TRUE
IsCandidate(name) == EndsWith(name, DotNpy)

\* ------------------------------------------------------------------------
\* process_and_overwrite_npy: control flow of the try block

\* the step after `step`: the next statement when it succeeded, the except
\* clause (and then the return) when it raised
\* (NextPcSwallow: a failed image.save does not leave the try block)
NextPcSwallow(step, ok) ==
    IF step = "load" /\ ok THEN "check"
    ELSE IF step = "check" /\ ok THEN "save"
    ELSE IF step = "save" THEN "remove"
    ELSE "ret"
NextPc(step, ok) ==
    IF ~ok THEN "ret"
    ELSE IF step = "load" THEN "check"
    ELSE IF step = "check" THEN "save"
    ELSE IF step = "save" THEN "remove"
    ELSE "ret"

\* the except clause only prints: the files are as the failed step left them
\* (OnExceptionCleanup: an except clause that removes the source)
OnExceptionCleanup(f, npy) == [f EXCEPT ![npy] = NoFile]
OnException(f, npy) == f

\* the argument of os.remove
\* (RemoveTargetPng: os.remove called on png_file_path)
RemoveTargetPng(npy, png) == png
RemoveTarget(npy, png) == npy

CanFault == Len(faultlog) < MaxFaults

Fault(kind) == [run |-> Len(hist) + 1, kind |-> kind, path |-> cur]

\* ------------------------------------------------------------------------
\* Initial states

IdleCall ==
    /\ pc = "idle" /\ cur = <<>> /\ data = NoArray /\ image = NoImage
    /\ pngpath = <<>> /\ outcome = "none" /\ wrote = FALSE

Init ==
    /\ fs \in InitFs
    /\ wpc = "idle" /\ todo = <<>> /\ top = <<>> /\ files = <<>>
    /\ IdleCall
    /\ fsc = fs /\ fs0 = fs
    /\ log = <<>> /\ hist = <<>> /\ faultlog = <<>>
    /\ src = NoArray /\ img = NoImage

\* ------------------------------------------------------------------------
\* process_directory

StartRun ==
    /\ wpc \in {"idle", "done"}
    /\ Len(hist) < MaxRuns
    /\ wpc' = "walk"
    /\ todo' = <<Root>>
    /\ top' = <<>> /\ files' = <<>>
    /\ fs0' = fs
    /\ log' = <<>>
    /\ UNCHANGED <<fs, callvars, hist, faultlog, convvars>>

\* os.walk lists the next directory: its files are looped over before it
\* descends into its sub-directories
WalkDir ==
    /\ wpc = "walk" /\ pc = "idle" /\ files = <<>> /\ todo # <<>>
    /\ top' = Head(todo)
    /\ \E fl \in Orders(FilesOf(fs, Head(todo))) : files' = fl
    /\ \E dl \in Orders(SubdirsOf(Dirs, Head(todo))) : todo' = dl \o Tail(todo)
    /\ UNCHANGED <<wpc, fs, callvars, fs0, log, hist, faultlog, convvars>>

\* a listed file whose name does not end with '.npy'
SkipFile ==
    /\ wpc = "walk" /\ pc = "idle" /\ files # <<>>
    /\ ~IsCandidate(Head(files))
    /\ files' = Tail(files)
    /\ UNCHANGED <<wpc, todo, top, fs, callvars, fs0, log, hist, faultlog, convvars>>

\* a listed file whose name ends with '.npy': the converter is called on it
CallConverter ==
    /\ wpc = "walk" /\ pc = "idle" /\ files # <<>>
    /\ IsCandidate(Head(files))
    /\ files' = Tail(files)
    /\ cur' = Join(top, Head(files))
    /\ pc' = "load"
    /\ fsc' = fs
    /\ UNCHANGED <<wpc, todo, top, fs, data, image, pngpath, outcome, wrote,
                   fs0, log, hist, faultlog, convvars>>

EndRun ==
    /\ wpc = "walk" /\ pc = "idle" /\ files = <<>> /\ todo = <<>>
    /\ wpc' = "done"
    /\ hist' = Append(hist, [start |-> fs0, calls |-> log, end |-> fs])
    /\ UNCHANGED <<todo, top, files, fs, callvars, fs0, log, faultlog, convvars>>

\* ------------------------------------------------------------------------
\* process_and_overwrite_npy

Raise(step, what, f) ==
    /\ outcome' = what
    /\ pc' = NextPc(step, FALSE)
    /\ fs' = OnException(f, cur)

\* np.load returns the array
LoadOK ==
    /\ pc = "load"
    /\ Loadable(fs[cur])
    /\ data' = LoadArray(fs[cur])
    /\ pc' = NextPc("load", TRUE)
    /\ UNCHANGED <<fs, walkvars, cur, image, pngpath, outcome, wrote, fsc,
                   fs0, log, hist, faultlog, convvars>>

\* np.load raises: the file is missing or does not hold a serialized array
LoadBad ==
    /\ pc = "load"
    /\ ~Loadable(fs[cur])
    /\ Raise("load", "load_failed", fs)
    /\ UNCHANGED <<walkvars, cur, data, image, pngpath, wrote, fsc,
                   fs0, log, hist, faultlog, convvars>>

\* np.load raises: the file cannot be read
LoadFault ==
    /\ pc = "load"
    /\ Loadable(fs[cur])
    /\ CanFault
    /\ faultlog' = Append(faultlog, Fault("load"))
    /\ Raise("load", "load_failed", fs)
    /\ UNCHANGED <<walkvars, cur, data, image, pngpath, wrote, fsc,
                   fs0, log, hist, convvars>>

\* the shape is (H, W, 3): reorder, narrow, build the image, derive the path
CheckOK ==
    /\ pc = "check"
    /\ ShapeOK(data)
    /\ data' = Reorder(data)
    /\ image' = ToImage(data)
    /\ pngpath' = PngPath(cur)
    /\ pc' = NextPc("check", TRUE)
    /\ UNCHANGED <<fs, walkvars, cur, outcome, wrote, fsc,
                   fs0, log, hist, faultlog, convvars>>

\* any other shape: the else branch prints and the call returns
CheckReject ==
    /\ pc = "check"
    /\ ~ShapeOK(data)
    /\ outcome' = "unsupported"
    /\ pc' = "ret"
    /\ UNCHANGED <<fs, walkvars, cur, data, image, pngpath, wrote, fsc,
                   fs0, log, hist, faultlog, convvars>>

\* image.save writes the image, replacing what was at the path
SaveOK ==
    /\ pc = "save"
    /\ fs' = [fs EXCEPT ![pngpath] = PngFile(image)]
    /\ wrote' = TRUE
    /\ pc' = NextPc("save", TRUE)
    /\ UNCHANGED <<walkvars, cur, data, image, pngpath, outcome, fsc,
                   fs0, log, hist, faultlog, convvars>>

\* image.save raises: the file cannot be opened (nothing changes), or the
\* write fails after the file was opened and truncated
SaveFault ==
    /\ pc = "save"
    /\ CanFault
    /\ faultlog' = Append(faultlog, Fault("save"))
    /\ \E f \in {fs, [fs EXCEPT ![pngpath] = BadFile]} :
          Raise("save", "write_failed", f)
    /\ UNCHANGED <<walkvars, cur, data, image, pngpath, wrote, fsc,
                   fs0, log, hist, convvars>>

\* os.remove deletes the file
RemoveOK ==
    /\ pc = "remove"
    /\ fs' = [fs EXCEPT ![RemoveTarget(cur, pngpath)] = NoFile]
    /\ outcome' = "ok"
    /\ pc' = NextPc("remove", TRUE)
    /\ UNCHANGED <<walkvars, cur, data, image, pngpath, wrote, fsc,
                   fs0, log, hist, faultlog, convvars>>

\* os.remove raises
RemoveFault ==
    /\ pc = "remove"
    /\ CanFault
    /\ faultlog' = Append(faultlog, Fault("remove"))
    /\ Raise("remove", "delete_failed", fs)
    /\ UNCHANGED <<walkvars, cur, data, image, pngpath, wrote, fsc,
                   fs0, log, hist, convvars>>

\* the call returns to the loop of process_directory
Return ==
    /\ pc = "ret"
    /\ log' = Append(log, [path |-> cur, png |-> pngpath, outcome |-> outcome])
    /\ pc' = "idle" /\ cur' = <<>> /\ data' = NoArray /\ image' = NoImage
    /\ pngpath' = <<>> /\ outcome' = "none" /\ wrote' = FALSE
    /\ UNCHANGED <<fs, walkvars, fsc, fs0, hist, faultlog, convvars>>

Next ==
    \/ StartRun \/ WalkDir \/ SkipFile \/ CallConverter \/ EndRun
    \/ LoadOK \/ LoadBad \/ LoadFault
    \/ CheckOK \/ CheckReject
    \/ SaveOK \/ SaveFault
    \/ RemoveOK \/ RemoveFault
    \/ Return

Spec == Init /\ [][Next]_vars

\* ------------------------------------------------------------------------
\* The conversion on its own: lines 43-46 applied to every array of the bounds

InitConv ==
    /\ \E hw \in ConvShapes :
          \E d \in [1..(hw[1] * hw[2] * 3) -> ElemVals] : src = ConvArray(hw, d)
    /\ img = NoImage
    /\ fs = [p \in Paths |-> NoFile]
    /\ wpc = "idle" /\ todo = <<>> /\ top = <<>> /\ files = <<>>
    /\ IdleCall
    /\ fsc = fs /\ fs0 = fs
    /\ log = <<>> /\ hist = <<>> /\ faultlog = <<>>

Convert ==
    /\ img = NoImage
    /\ ShapeOK(src)
    /\ img' = ToImage(src)
    /\ UNCHANGED <<src, fs, walkvars, callvars, fs0, log, hist, faultlog>>

NextConv == Convert

SpecConv == InitConv /\ [][NextConv]_vars

\* ------------------------------------------------------------------------
\* Vocabulary of the properties

InCall == pc # "idle"

\* the shape (H, W, 3), stated on a shape
IsHW3(sh) == Len(sh) = 3 /\ sh[3] = 3

\* the path with its trailing four characters replaced by '.png'
SwapExt(p) == SubSeq(p, 1, Len(p) - Len(DotNpy)) \o DotPng

\* the files of f whose name ends with '.npy'
ArrayFiles(f) == { p \in Paths : Exists(f, p) /\ EndsWith(Basename(p), DotNpy) }

Range(q) == { q[i] : i \in 1..Len(q) }

\* the work a run still has to do: the statements left in the call in progress,
\* the listed files not yet looped over, the directories not yet listed
StepsLeft ==
    CASE pc = "idle" -> 0 [] pc = "ret" -> 1 [] pc = "remove" -> 2
      [] pc = "save" -> 3 [] pc = "check" -> 4 [] pc = "load" -> 5

Under(d) == { e \in Dirs : e = d \/ StartsAt(e, 1, d \o Sep) }

RECURSIVE DirsLeft(_)
DirsLeft(q) == IF q = <<>> THEN 0 ELSE Cardinality(Under(Head(q))) + DirsLeft(Tail(q))

Work ==
    (IF wpc = "walk" THEN 1 ELSE 0) + StepsLeft + 6 * Len(files)
      + 6 * (Cardinality(Paths) + 1) * DirsLeft(todo)

\* one conversion in which no step fails
Converted(f, p) ==
    IF Loadable(f[p]) /\ IsHW3(f[p].shape)
    THEN [f EXCEPT ![PngPath(p)] = PngFile(ToImage(LoadArray(f[p]))), ![p] = NoFile]
    ELSE f

\* a run over the calls of `calls`, in their order, in which no step fails
RECURSIVE FullySucceeded(_, _)
FullySucceeded(f, calls) ==
    IF calls = <<>> THEN f
    ELSE FullySucceeded(Converted(f, Head(calls).path), Tail(calls))

\* ------------------------------------------------------------------------
\* C1: after a call in which load, shape check, write and delete all
\* succeeded, the source is gone, the image the call built is at the path the
\* call derived (a path other than the source's), and no other file changed:
\* source and output do not coexist.
C1_SuccessReplacesSource ==
    (pc = "ret" /\ outcome = "ok") =>
        /\ ~Exists(fs, cur)
        /\ PngPath(cur) # cur
        /\ fs[PngPath(cur)] = PngFile(image)
        /\ \A p \in Paths \ {cur, PngPath(cur)} : fs[p] = fsc[p]

\* a successful call that created a file which was not there before
C1_Witness ==
    /\ pc = "ret" /\ outcome = "ok"
    /\ Exists(fsc, cur) /\ ~Exists(fsc, PngPath(cur))

\* C2: a loaded array whose shape is not (H, W, 3) is reported as unsupported;
\* the call writes nothing and deletes nothing, the files are as before it.
C2_UnsupportedShapeUntouched ==
    (InCall /\ data # NoArray /\ ~IsHW3(fsc[cur].shape)) =>
        /\ pc \in {"check", "ret"}
        /\ fs = fsc
        /\ ~wrote
        /\ pc = "ret" => outcome = "unsupported"

\* an H x W x 4 array was rejected
C2_Witness ==
    /\ pc = "ret" /\ outcome = "unsupported"
    /\ Len(fsc[cur].shape) = 3 /\ fsc[cur].shape[3] = 4
    /\ Exists(fs, cur)

\* C3: the path the image is written to is the source path with only its
\* trailing '.npy' replaced by '.png'.
C3_OutputIsExtensionSwap ==
    (pc \in {"save", "remove", "ret"} /\ pngpath # <<>>) => pngpath = SwapExt(cur)

\* C4: the image of an H x W x 3 integer array has H rows and W columns and
\* its pixel (row, col) is the source's channels 2, 1, 0 modulo 256; where
\* channels 0 and 2 differ modulo 256 it is not the unswapped pixel.
C4_PixelsSwappedAndNarrowed ==
    (img # NoImage) =>
        LET h == src.shape[1]
            w == src.shape[2]
            S(r, c, k) == src.data[(r * w + c) * 3 + k + 1]
        IN  /\ img.size = <<w, h>>
            /\ Len(img.px) = h * w * 3
            /\ \A r \in 0..(h - 1), c \in 0..(w - 1) :
                 /\ GetPixel(img, c, r) =
                       <<S(r, c, 2) % 256, S(r, c, 1) % 256, S(r, c, 0) % 256>>
                 /\ (S(r, c, 0) % 256 # S(r, c, 2) % 256) =>
                       GetPixel(img, c, r) #
                          <<S(r, c, 0) % 256, S(r, c, 1) % 256, S(r, c, 2) % 256>>

\* a one-row, two-column array with values below 0 and above 255 was converted
C4_Witness ==
    /\ img # NoImage
    /\ src.shape = <<1, 2, 3>>
    /\ img.size = <<2, 1>>
    /\ src.data[1] = 258 /\ src.data[3] = -1
    /\ GetPixel(img, 0, 0)[1] = 255 /\ GetPixel(img, 0, 0)[3] = 2

\* C5: when loading fails the call reports it and returns; it creates no
\* file and neither deletes nor changes the source.
C5_LoadFailureUntouched ==
    (pc = "ret") =>
        /\ ~Loadable(fsc[cur]) => data = NoArray
        /\ (data = NoArray) =>
              /\ outcome = "load_failed"
              /\ fs = fsc
              /\ ~wrote

\* a corrupt file made the load fail
C5_Witness ==
    /\ pc = "ret" /\ outcome = "load_failed"
    /\ fsc[cur] = BadFile /\ fs[cur] = BadFile

\* C6: a finished run has called the converter exactly once on every file
\* under the root whose name ends with '.npy' and on no other file, one call
\* at a time, whatever the calls' outcomes; and every run finishes: a run in
\* progress can always take a step, and each step leaves less work.
C6_RunCallsEachArrayFileOnce ==
    /\ [](/\ InCall => wpc = "walk"
          /\ (wpc = "walk") => ENABLED Next
          /\ (wpc = "done") =>
               /\ \A i, j \in 1..Len(log) : log[i].path = log[j].path => i = j
               /\ { c.path : c \in Range(log) } = ArrayFiles(fs0))
    /\ [][(wpc = "walk") => (Work' < Work /\ Work' >= 0)]_vars

\* a run finished in which a call failed and a later call succeeded
C6_Witness ==
    /\ wpc = "done"
    /\ Len(log) = 2
    /\ log[1].outcome \in {"load_failed", "write_failed", "delete_failed"}
    /\ log[2].outcome = "ok"

\* C7: a call that wrote the image and failed to delete the source leaves
\* both; a second run reprocesses the source, and when that was the only
\* failure the files end as a first run without failure would have left them.
C7_RerunAfterDeleteFailure ==
    /\ (pc = "ret" /\ outcome = "delete_failed") =>
          /\ Exists(fs, cur)
          /\ fs[pngpath] = PngFile(image)
    /\ (/\ wpc = "done" /\ Len(hist) = 2
        /\ Len(faultlog) = 1
        /\ faultlog[1].kind = "remove" /\ faultlog[1].run = 1) =>
          /\ \E c \in Range(hist[2].calls) :
                c.path = faultlog[1].path /\ c.outcome = "ok"
          /\ fs = FullySucceeded(hist[1].start, hist[1].calls)

\* C8: a run on a tree without array files converts, writes and deletes
\* nothing: the files stay as they were when the run started.
C8_NoArrayFilesNoAction ==
    (wpc \in {"walk", "done"} /\ ArrayFiles(fs0) = {}) =>
        /\ fs = fs0
        /\ log = <<>>
        /\ ~InCall

\* the second run, after a first run that converted every array file
C8_Witness ==
    /\ wpc = "done" /\ Len(hist) = 2
    /\ hist[1].calls # <<>>
    /\ \A c \in Range(hist[1].calls) : c.outcome = "ok"
    /\ hist[2].calls = <<>>
    /\ fs = hist[1].end

\* C9: within a call the source is deleted only after the image has been
\* written, and nothing follows the delete; when the write fails the source
\* is still there, unchanged, when the call returns.
C9_DeleteOnlyAfterWrite ==
    InCall =>
        /\ (Exists(fsc, cur) /\ ~Exists(fs, cur)) =>
              /\ wrote
              /\ fs[PngPath(cur)] = PngFile(image)
              /\ pc = "ret"
        /\ (pc = "ret" /\ outcome = "write_failed") =>
              /\ Exists(fs, cur)
              /\ fs[cur] = fsc[cur]

\* a write failed half way and the call returned with the source in place
C9_Witness ==
    /\ pc = "ret" /\ outcome = "write_failed"
    /\ fs[pngpath] = BadFile
    /\ Exists(fs, cur)

\* C10: in a finished run distinct sources were written to distinct paths,
\* and every source the run deleted has its own converted pixels at its
\* output path.
C10_NoSourceLost ==
    (wpc = "done") =>
        /\ \A i, j \in 1..Len(log) :
              (i # j /\ log[i].png # <<>> /\ log[j].png # <<>>) => log[i].png # log[j].png
        /\ \A p \in SrcPaths :
              (Exists(fs0, p) /\ ~Exists(fs, p)) =>
                  fs[PngPath(p)] = PngFile(ToImage(LoadArray(fs0[p])))

====
